---- MODULE Spec2Model ----
(***************************************************************************)
(* Blob storage layer and orphaned-file cleanup job of kudoboard-api.      *)
(*                                                                         *)
(* Go strings are modelled as sequences of tokens.  A token is a short     *)
(* piece of text that the model never needs to look inside: a path         *)
(* separator, a category name, a directory name, a generated file name,    *)
(* the "/uploads/" URL prefix, a URL scheme, the S3 host name.  Tokens     *)
(* are ordered as their text is ordered bytewise, so comparing two token   *)
(* sequences lexicographically gives the result of Go's string comparison  *)
(* for the strings the model builds.                                       *)
(***************************************************************************)
EXTENDS Integers, Sequences, FiniteSets, TLC

VARIABLES
    storageType,      \* cfg.StorageType: "local" or "s3"
    objects,          \* the backend's content: key -> last-modified time
    now,              \* the wall clock, in units of 24 hours
    posts,            \* rows of posts: [media_path, media_source]
    themes,           \* rows of themes: [icon_url, background_image_url]
    users,            \* rows of users: [profile_picture]
    pc,               \* position of the cleanup job
    pi,               \* index of the prefix CleanOrphanedFiles is at
    minAge,           \* CleanOrphanedFiles: minAge
    run,              \* CleanOrphanedFiles: totalProcessed/Deleted/Errors
    pfx,              \* cleanPrefix: totalProcessed/Deleted/Errors
    lastKey,          \* cleanPrefix: lastKey
    files,            \* cleanPrefix: files (the page just listed)
    filesToCheck,     \* cleanPrefix: filesToCheck
    existingPathsMap, \* findOrphanedFiles: existingPathsMap (as a set)
    orphanedFiles,    \* cleanPrefix: orphanedFiles
    di,               \* index of the orphan the delete loop is at
    result,           \* what CleanOrphanedFiles returned: "none", "nil", "err"
    events,           \* what the job did so far (history)
    faults,           \* number of failures the environment injected (history)
    objects0,         \* the backend's content when the model starts (history)
    cpc,              \* position of the request handler
    curl,             \* the URL the request handler's Delete works on
    cexisted,         \* the object existed when the handler issued Delete
    rexisted,         \* the object existed when the job issued Delete
    clog,             \* the handler's storage calls and what they returned
                      \* (history)
    cops,             \* number of requests served so far
    raced,            \* the handler's Delete calls that overlapped one of
                      \* the job on the same URL, the object existing when
                      \* the first of the two was issued (history)
    runs,             \* number of runs of the job that have returned
    data,             \* the backend's content: key -> bytes of the object
    saving,           \* the Save of the local backend that has created its
                      \* file and not yet copied the content, if any
    boardPosts,       \* the committed rows of posts of one board: id, position
    txs,              \* CreatePost: the transaction of each request
    dq,               \* DeletePost, DeleteBoard: the requests, each with the
                      \* posts it read before its transaction
    clients,          \* RateLimiterMiddleware.clients: IP -> limiter
    rlog              \* the requests the rate limiter has decided (history)

vars == << storageType, objects, now, posts, themes, users, pc, pi, minAge,
           run, pfx, lastKey, files, filesToCheck, existingPathsMap,
           orphanedFiles, di, result, events, faults, objects0,
           cpc, curl, cexisted, rexisted, clog, cops, raced, runs,
           data, saving, boardPosts, txs, dq, clients, rlog >>

---------------------------------------------------------------------------
(* Bounds of the model *)

\* Page size of the listing.  The source uses 100 (cleanPrefix: batchSize);
\* the model scales it down so that a prefix spans several pages.
batchSize == 2

\* Failures (list, query, delete) the environment may inject in one run.
MaxFaults == 1

\* Requests the handler serves while the job runs.
MaxClientOps == 2

\* The clock stops here.
MaxTime == 3

\* Times the scheduler fires the job again after it returned.
MaxReruns == 1

\* Calls of the storage interface in one behaviour.
MaxStoreOps == 3

\* Concurrent CreatePost requests on the board.
MaxRequests == 3

\* DeletePost and DeleteBoard requests in one behaviour.
MaxDeletes == 2

\* Requests the rate limiter decides in one behaviour.
MaxLimited == 4

\* cfg.RateLimitRequests and cfg.RateLimitBurst: tokens a general limiter
\* gains per second, and holds at most.  The defaults are 10 and 20.
RateLimitRequests == 2
RateLimitBurst == 2

\* cfg.AuthRateLimitRequests and cfg.AuthRateLimitBurst, for the limiter of
\* the auth endpoints.  The defaults are 5 and 10.
AuthRateLimitRequests == 1
AuthRateLimitBurst == 1

\* Seconds without a request after which cleanupClients drops a client.
\* The source uses one hour.
IdleLimit == 2

Requests == 1..MaxRequests

\* The job lists no further page once its history is this long.  No run of
\* the job comes near it (C11); it keeps a paging loop that would not end
\* within finitely many states.
MaxHistory == 60

(* Program constants *)

\* CleanOrphanedFiles: minAge := time.Now().Add(-24 * time.Hour); the model's
\* time unit is 24 hours.
MinAgeDays == 1

---------------------------------------------------------------------------
(* Strings *)

\* Every token, in the bytewise order of its text.
TokenOrder ==
    << "#", "-", ".png", "/", "/uploads/", "0", "2", "3", "4", "?", "\\",
       "anonymous", "avatar", "bucket.s3.region.amazonaws.com", "f1", "f2",
       "f3", "f4", "general", "gif", "http://", "https://", "icon", "id1",
       "id2", "id3", "image", "theme", "user_1", "user_2", "video" >>

Rank(t) == CHOOSE i \in 1..Len(TokenOrder) : TokenOrder[i] = t

\* Go: a < b on strings.
RECURSIVE StrLess(_, _)
StrLess(a, b) ==
    IF a = << >> THEN b # << >>
    ELSE IF b = << >> THEN FALSE
    ELSE IF Head(a) = Head(b) THEN StrLess(Tail(a), Tail(b))
    ELSE Rank(Head(a)) < Rank(Head(b))

\* Go: a <= b on strings.
StrLeq(a, b) == a = b \/ StrLess(a, b)

\* strings.HasPrefix
HasPrefix(s, p) == Len(s) >= Len(p) /\ SubSeq(s, 1, Len(p)) = p

\* strings.TrimPrefix
TrimPrefix(s, p) == IF HasPrefix(s, p) THEN SubSeq(s, Len(p) + 1, Len(s)) ELSE s

\* strings.ReplaceAll(s, "\\", "/")
ReplaceBackslash(s) == [i \in 1..Len(s) |-> IF s[i] = "\\" THEN "/" ELSE s[i]]

\* The longest prefix of s holding none of the tokens in stop.
RECURSIVE TakeUntil(_, _)
TakeUntil(s, stop) ==
    IF s = << >> \/ Head(s) \in stop THEN << >>
    ELSE << Head(s) >> \o TakeUntil(Tail(s), stop)

\* s from its first token in stop on.
RECURSIVE DropUntil(_, _)
DropUntil(s, stop) ==
    IF s = << >> \/ Head(s) \in stop THEN s ELSE DropUntil(Tail(s), stop)

\* net/url: Parse(u).Path for u = scheme authority path [?query] [#fragment].
\* No token of the model is a percent escape, so the path is not unescaped.
URLPath(u) == TakeUntil(DropUntil(Tail(u), {"/", "?", "#"}), {"?", "#"})

\* extractPathFromURL
extractPathFromURL(fileURL) ==
    IF HasPrefix(fileURL, << "http://" >>) \/ HasPrefix(fileURL, << "https://" >>)
    THEN TrimPrefix(URLPath(fileURL), << "/" >>)
    ELSE IF HasPrefix(fileURL, << "/uploads/" >>)
    THEN TrimPrefix(fileURL, << "/uploads/" >>)
    ELSE fileURL

\* LocalStorage.GetURL
LocalGetURL(filename) == << "/uploads/" >> \o ReplaceBackslash(filename)

\* S3Storage.GetURL
S3GetURL(key) == << "https://", "bucket.s3.region.amazonaws.com", "/" >> \o key

\* StorageService.GetURL of the configured backend
GetURL(st, key) == IF st = "s3" THEN S3GetURL(key) ELSE LocalGetURL(key)

---------------------------------------------------------------------------
(* Paths *)

\* The path components of a slash-separated path.
RECURSIVE Components(_)
Components(p) ==
    IF p = << >> THEN << >>
    ELSE LET first == TakeUntil(p, {"/"})
             rest  == DropUntil(p, {"/"})
         IN  << first >> \o (IF rest = << >> THEN << >> ELSE Components(Tail(rest)))

\* filepath.Dir: the path without its last component.
RECURSIVE DirOf(_)
DirOf(p) ==
    IF p = << >> THEN << >>
    ELSE IF p[Len(p)] = "/" THEN SubSeq(p, 1, Len(p) - 1)
    ELSE DirOf(SubSeq(p, 1, Len(p) - 1))

\* p lies in directory d or below it.
Under(p, d) == HasPrefix(p, d \o << "/" >>)

\* The order in which filepath.Walk reaches two files: directory entries are
\* read sorted by name, so files are reached in the lexicographic order of
\* their component lists.
RECURSIVE CompsLess(_, _)
CompsLess(a, b) ==
    IF a = << >> THEN b # << >>
    ELSE IF b = << >> THEN FALSE
    ELSE IF Head(a) = Head(b) THEN CompsLess(Tail(a), Tail(b))
    ELSE StrLess(Head(a), Head(b))

WalkLess(a, b) == CompsLess(Components(a), Components(b))

RECURSIVE SetToSeq(_)
SetToSeq(S) ==
    IF S = {} THEN << >>
    ELSE LET x == CHOOSE y \in S : TRUE IN << x >> \o SetToSeq(S \ {x})

---------------------------------------------------------------------------
(* Listing *)

\* One step of the filepath.Walk callback of listLocalFilesBatch.  w holds
\* the callback's captured variables (files, skipUntilAfter), the
\* directories Walk was told to skip (skipped) and whether Walk has ended
\* (stop).  Returning SkipDir from a file makes Walk skip the rest of the
\* file's directory; when that directory is the root of the walk, Walk ends.
WalkVisit(w, key, objs, root, startAfter, bs) ==
    LET url == << "/uploads/" >> \o ReplaceBackslash(key)
    IN  IF w.skipUntilAfter /\ StrLeq(url, startAfter) THEN w
        ELSE LET nf == Append(w.files, [URL |-> url, ModTime |-> objs[key]])
             IN  IF Len(nf) >= bs
                 THEN [files |-> nf, skipUntilAfter |-> FALSE,
                       skipped |-> w.skipped \cup {DirOf(key)},
                       stop |-> (DirOf(key) = root)]
                 ELSE [w EXCEPT !.files = nf, !.skipUntilAfter = FALSE]

\* filepath.Walk over the files below root, in walk order.
RECURSIVE WalkFrom(_, _, _, _, _, _, _)
WalkFrom(order, i, w, objs, root, startAfter, bs) ==
    IF i > Len(order) \/ w.stop THEN w.files
    ELSE LET key == order[i]
         IN  IF \E d \in w.skipped : DirOf(key) = d \/ Under(key, d)
             THEN WalkFrom(order, i + 1, w, objs, root, startAfter, bs)
             ELSE WalkFrom(order, i + 1,
                           WalkVisit(w, key, objs, root, startAfter, bs),
                           objs, root, startAfter, bs)

\* listLocalFilesBatch.  filepath.Join(basePath, prefix) drops the trailing
\* slash of the prefix; a prefix directory that does not exist, or holds no
\* file, gives the empty list.
listLocalFilesBatch(objs, prefix, startAfter, bs) ==
    LET root  == SubSeq(prefix, 1, Len(prefix) - 1)
        below == {k \in DOMAIN objs : Under(k, root)}
        order == SortSeq(SetToSeq(below), WalkLess)
    IN  WalkFrom(order, 1,
                 [files |-> << >>, skipUntilAfter |-> (startAfter # << >>),
                  skipped |-> {}, stop |-> FALSE],
                 objs, root, startAfter, bs)

\* s3: ListObjectsV2(Prefix, StartAfter, MaxKeys) returns the keys that begin
\* with Prefix and follow StartAfter, in bytewise order, at most MaxKeys.
ListObjectsV2(objs, prefix, startAfter, maxKeys) ==
    LET match == {k \in DOMAIN objs :
                    HasPrefix(k, prefix) /\ StrLess(startAfter, k)}
        order == SortSeq(SetToSeq(match), StrLess)
    IN  SubSeq(order, 1, IF Len(order) < maxKeys THEN Len(order) ELSE maxKeys)

\* listS3FilesBatch
listS3FilesBatch(objs, prefix, startAfter, bs) ==
    LET after == IF startAfter # << >> THEN extractPathFromURL(startAfter)
                 ELSE << >>
        keys  == ListObjectsV2(objs, prefix, after, bs)
    IN  [i \in 1..Len(keys) |->
            [URL |-> S3GetURL(keys[i]), ModTime |-> objs[keys[i]]]]

\* listFilesBatch
listFilesBatch(st, objs, prefix, startAfter, bs) ==
    IF st = "s3" THEN listS3FilesBatch(objs, prefix, startAfter, bs)
    ELSE listLocalFilesBatch(objs, prefix, startAfter, bs)


---------------------------------------------------------------------------
(* Storage backends *)

\* The existence check that opens Delete.  LocalStorage.Delete: os.Stat, and
\* a file that does not exist is a success.  S3Storage.Delete: HeadObject,
\* and any error of it is returned as "file not found".  "go" means that
\* Delete goes on to remove the object.
LocalDeleteCheck(objs, fileURL) ==
    IF extractPathFromURL(fileURL) \notin DOMAIN objs THEN "nil" ELSE "go"

S3DeleteCheck(objs, fileURL) ==
    IF extractPathFromURL(fileURL) \notin DOMAIN objs THEN "err" ELSE "go"

DeleteCheck(st, objs, fileURL) ==
    IF st = "s3" THEN S3DeleteCheck(objs, fileURL)
    ELSE LocalDeleteCheck(objs, fileURL)

\* Mutant: the object under k is rewritten, not removed.
WithoutRewrites(objs, k) ==
    [x \in DOMAIN objs |-> IF x = k THEN objs[x] + 1 ELSE objs[x]]

\* objs without key k.
Without(objs, k) == [x \in DOMAIN objs \ {k} |-> objs[x]]

\* f on the keys in S.
Restrict(f, S) == [x \in S |-> f[x]]

\* The bytes of an object whose content the model does not look at.
SomeContent == << "b1", "b2" >>

\* The removal that ends Delete, and what Delete returns.
\* LocalStorage.Delete: os.Remove, which fails on a file that is gone.
\* S3Storage.Delete: DeleteObject, which succeeds on a key that is gone, then
\* WaitUntilObjectNotExists.  fail: the environment makes the call fail.
LocalDeleteRemove(objs, fileURL, fail) ==
    LET k == extractPathFromURL(fileURL)
    IN  IF fail \/ k \notin DOMAIN objs THEN [objs |-> objs, res |-> "err"]
        ELSE [objs |-> Without(objs, k), res |-> "nil"]

S3DeleteRemove(objs, fileURL, fail) ==
    LET k == extractPathFromURL(fileURL)
    IN  IF fail THEN [objs |-> objs, res |-> "err"]
        ELSE [objs |-> Without(objs, k), res |-> "nil"]

DeleteRemove(st, objs, fileURL, fail) ==
    IF st = "s3" THEN S3DeleteRemove(objs, fileURL, fail)
    ELSE LocalDeleteRemove(objs, fileURL, fail)

\* f with v stored under k.
Put(f, k, v) == [x \in DOMAIN f \cup {k} |-> IF x = k THEN v ELSE f[x]]

\* filepath.Ext for the file names of the model: the last token when it is
\* an extension.
Ext(originalFilename) ==
    IF originalFilename # << >>
          /\ originalFilename[Len(originalFilename)] \in {".png"}
    THEN << originalFilename[Len(originalFilename)] >>
    ELSE << >>

\* generateUniqueFilename.  timestamp is time.Now() formatted to the second,
\* uniqueID the first 8 characters of uuid.New().
generateUniqueFilename(originalFilename, timestamp, uniqueID) ==
    LET ext  == Ext(originalFilename)
        name == SubSeq(originalFilename, 1, Len(originalFilename) - Len(ext))
    IN  name \o << "-", timestamp, "-", uniqueID >> \o ext

\* filepath.Join(directory, filename) on a host whose separator is "/".
Join(directory, filename) == directory \o << "/" >> \o filename

\* The key Save stores the object under.  LocalStorage.Save creates
\* filepath.Join(basePath, directory, filename); S3Storage.Save replaces the
\* backslashes of filepath.Join(directory, filename).
SaveKey(st, directory, filename) ==
    IF st = "s3" THEN ReplaceBackslash(Join(directory, filename))
    ELSE Join(directory, filename)

\* Mutant: Save returns the location of the upload response, here the
\* bucket's address without the region.
SaveURLIsLocation(st, directory, filename) ==
    << "https://", "bucket.s3.amazonaws.com", "/" >>
        \o SaveKey(st, directory, filename)

\* The URL Save returns: GetURL of the relative path (local) or of the key
\* (S3).
SaveURL(st, directory, filename) == GetURL(st, SaveKey(st, directory, filename))

\* Get.  LocalStorage.Get: extractPathFromURL, os.Stat, os.Open;
\* S3Storage.Get: extractPathFromURL, GetObject.
StorageGet(objs, dat, fileURL) ==
    LET k == extractPathFromURL(fileURL)
    IN  IF k \in DOMAIN objs THEN [res |-> "nil", body |-> dat[k]]
        ELSE [res |-> "err", body |-> << >>]

---------------------------------------------------------------------------
(* Cleanup job: data *)

\* CleanOrphanedFiles: prefixes
prefixes ==
    << << "image", "/" >>, << "avatar", "/" >>, << "gif", "/" >>,
       << "video", "/" >>, << "theme", "/" >>, << "icon", "/" >>,
       << "general", "/" >> >>

Zero == [processed |-> 0, deleted |-> 0, errors |-> 0]

\* An entry of the history: what happened, in which prefix, on which URL,
\* with which page or set of paths, and when.  The set of a "qok" entry is
\* what the query returned; the set of a "del" entry holds the URL when a
\* row referenced it at the time storage.Delete was called.
Ev(ev, prefix, url, page, set) ==
    [ev |-> ev, prefix |-> prefix, url |-> url, page |-> page, set |-> set,
     t |-> now]

\* The URLs some row holds in one of the four owning columns.
Referenced ==
    {r.media_path : r \in {x \in posts : x.media_source = "internal"}}
      \cup {r.icon_url : r \in themes}
      \cup {r.background_image_url : r \in themes}
      \cup {r.profile_picture : r \in users}

\* The URLs of a list of FileInfo.
URLs(fs) == [i \in 1..Len(fs) |-> fs[i].URL]

Range(q) == {q[i] : i \in 1..Len(q)}

\* Mutant: the age filter keeps every file.
FilterByAgeKeepsAll(fs, age) == fs

\* cleanPrefix: filter files by age (file.ModTime.Before(minAge)).
FilterByAge(fs, age) ==
    LET old(f) == f.ModTime < age IN SelectSeq(fs, old)

\* findOrphanedFiles: the four queries.  Each returns the values of one
\* column that are among filePaths.
QueryPostPaths(rows, filePaths) ==
    {r.media_path : r \in {x \in rows : x.media_path \in filePaths
                                        /\ x.media_source = "internal"}}

QueryIconPaths(rows, filePaths) ==
    {r.icon_url : r \in {x \in rows : x.icon_url \in filePaths}}

QueryBgPaths(rows, filePaths) ==
    {r.background_image_url :
        r \in {x \in rows : x.background_image_url \in filePaths}}

QueryProfilePaths(rows, filePaths) ==
    {r.profile_picture : r \in {x \in rows : x.profile_picture \in filePaths}}

\* Mutant: every checked file counts as orphaned.
OrphansOfIgnoresMap(fs, existing) == fs

\* findOrphanedFiles: the files whose URL is not in existingPathsMap.
OrphansOf(fs, existing) ==
    LET orphan(f) == f.URL \notin existing IN SelectSeq(fs, orphan)


---------------------------------------------------------------------------
(* Cleanup job: steps *)

webVars    == << boardPosts, txs, dq, clients, rlog >>
dbVars     == << posts, themes, users >>
clientVars == << cpc, curl, cexisted, clog, cops >>
pageVars   == << files, filesToCheck, existingPathsMap, orphanedFiles, di >>
envVars    == << storageType, now, objects0, runs, saving >>

CurPrefix == prefixes[pi]

\* The scheduler fires the job (main: scheduler.Every(1).Day()), and
\* CleanOrphanedFiles runs up to its loop over the prefixes.
StartRun ==
    /\ pc = "idle"
    /\ pc' = "prefix"
    /\ pi' = 1
    /\ minAge' = now - MinAgeDays
    /\ run' = Zero
    /\ events' = << Ev("start", << >>, << >>, << >>, {}) >>
    /\ UNCHANGED << objects, data, pfx, lastKey, result, faults, rexisted, raced >>
    /\ UNCHANGED << webVars, dbVars, clientVars, pageVars, envVars >>

\* Mutant: CleanOrphanedFiles returns the error of cleanPrefix.
PrefixFailedReturnsError(evs) ==
    /\ pc' = "done"
    /\ pi' = pi
    /\ run' = run
    /\ result' = "err"
    /\ events' = Append(evs, Ev("prefixerr", prefixes[pi], << >>, << >>, {}))

\* CleanOrphanedFiles: cleanPrefix returned an error; log it and continue
\* with the next prefix.
PrefixFailed(evs) ==
    /\ pc' = "prefix"
    /\ pi' = pi + 1
    /\ run' = run
    /\ result' = result
    /\ events' = Append(evs, Ev("prefixerr", CurPrefix, << >>, << >>, {}))

\* CleanOrphanedFiles: cleanPrefix returned its counts; add them up.
PrefixDone(p, evs) ==
    /\ pc' = "prefix"
    /\ pi' = pi + 1
    /\ run' = [processed |-> run.processed + p.processed,
               deleted   |-> run.deleted + p.deleted,
               errors    |-> run.errors + p.errors]
    /\ result' = result
    /\ events' = evs

\* CleanOrphanedFiles: the head of the loop over the prefixes.  Either
\* cleanPrefix starts on the next prefix, or the job logs its totals and
\* returns nil.
NextPrefix ==
    /\ pc = "prefix"
    /\ IF pi <= Len(prefixes)
       THEN /\ pc' = "list"
            /\ lastKey' = << >>
            /\ pfx' = Zero
            /\ events' = Append(events, Ev("prefix", CurPrefix, << >>, << >>, {}))
            /\ result' = result
       ELSE /\ pc' = "done"
            /\ result' = "nil"
            /\ events' = Append(events, Ev("report", << >>, << >>, << >>, {}))
            /\ UNCHANGED << lastKey, pfx >>
    /\ UNCHANGED << objects, data, pi, minAge, run, faults, rexisted, raced >>
    /\ UNCHANGED << webVars, dbVars, clientVars, pageVars, envVars >>

\* cleanPrefix: listFilesBatch fails; cleanPrefix returns the error.
ListFail ==
    /\ pc = "list"
    /\ faults < MaxFaults
    /\ faults' = faults + 1
    /\ PrefixFailed(Append(events, Ev("listerr", CurPrefix, lastKey, << >>, {})))
    /\ UNCHANGED << objects, data, minAge, pfx, lastKey, rexisted, raced >>
    /\ UNCHANGED << webVars, dbVars, clientVars, pageVars, envVars >>

\* cleanPrefix: one page is listed and filtered by age.  An empty page ends
\* the prefix; a page without eligible file moves the cursor and lists
\* again; otherwise findOrphanedFiles starts.
ListPage ==
    /\ pc = "list"
    /\ Len(events) < MaxHistory
    /\ LET fs  == listFilesBatch(storageType, objects, CurPrefix, lastKey, batchSize)
           chk == FilterByAge(fs, minAge)
           evs == Append(events, Ev("list", CurPrefix, lastKey, URLs(fs), {}))
       IN  /\ files' = fs
           /\ IF Len(fs) = 0
              THEN /\ PrefixDone(pfx, evs)
                   /\ UNCHANGED << pfx, lastKey, filesToCheck, existingPathsMap >>
              ELSE /\ filesToCheck' = chk
                   /\ pfx' = [pfx EXCEPT !.processed = @ + Len(chk)]
                   /\ events' = evs
                   /\ UNCHANGED << pi, run, result >>
                   /\ IF Len(chk) = 0
                      THEN /\ lastKey' = fs[Len(fs)].URL
                           /\ pc' = "list"
                           /\ UNCHANGED existingPathsMap
                      ELSE /\ pc' = "q_posts"
                           /\ existingPathsMap' = {}
                           /\ UNCHANGED lastKey
    /\ UNCHANGED << objects, data, minAge, orphanedFiles, di, faults, rexisted, raced >>
    /\ UNCHANGED << webVars, dbVars, clientVars, envVars >>

\* findOrphanedFiles: filePaths
filePaths == Range(URLs(filesToCheck))

\* Mutant: a failed query skips the page; the cursor moves past it and the
\* next page is listed.
QueryFailedSkipsThePage(evs) ==
    /\ pc' = "list"
    /\ lastKey' = files[Len(files)].URL
    /\ events' = evs
    /\ UNCHANGED << pi, run, result >>

\* cleanPrefix: findOrphanedFiles returned an error; cleanPrefix returns it.
QueryFailed(evs) ==
    /\ PrefixFailed(evs)
    /\ lastKey' = lastKey

\* findOrphanedFiles: one of the four queries fails.
QueryFail ==
    /\ pc \in {"q_posts", "q_icon", "q_bg", "q_users"}
    /\ faults < MaxFaults
    /\ faults' = faults + 1
    /\ QueryFailed(Append(events, Ev("qerr", CurPrefix, << >>, << pc >>, {})))
    /\ UNCHANGED << objects, data, minAge, pfx, rexisted, raced >>
    /\ UNCHANGED << webVars, dbVars, clientVars, pageVars, envVars >>

\* findOrphanedFiles: one query succeeds and its paths enter the map; after
\* the last query the orphans are collected and the delete loop starts.
QueryStep(at, next, paths) ==
    /\ pc = at
    /\ pc' = next
    /\ existingPathsMap' = existingPathsMap \cup paths
    /\ events' = Append(events, Ev("qok", CurPrefix, << >>, << at >>, paths))
    /\ IF next = "del_loop"
       THEN /\ orphanedFiles' = OrphansOf(filesToCheck, existingPathsMap')
            /\ di' = 1
       ELSE UNCHANGED << orphanedFiles, di >>
    /\ UNCHANGED << objects, data, pi, minAge, run, pfx, lastKey, files, filesToCheck,
                    result, faults, rexisted, raced >>
    /\ UNCHANGED << webVars, dbVars, clientVars, envVars >>

QueryPosts   == QueryStep("q_posts", "q_icon", QueryPostPaths(posts, filePaths))
QueryIcons   == QueryStep("q_icon", "q_bg", QueryIconPaths(themes, filePaths))
QueryBgs     == QueryStep("q_bg", "q_users", QueryBgPaths(themes, filePaths))
QueryProfiles == QueryStep("q_users", "del_loop", QueryProfilePaths(users, filePaths))

\* The request handler is inside storage.Delete of fileURL.
ClientInDelete(fileURL) == cpc \in {"c_stat", "c_remove"} /\ curl = fileURL

\* The job is inside storage.Delete of fileURL.
JobInDelete(fileURL) ==
    /\ pc \in {"del_stat", "del_remove"}
    /\ orphanedFiles[di].URL = fileURL

\* cleanPrefix: the head of the delete loop.  Either storage.Delete is
\* called on the next orphan, or the page is done: the cursor moves to the
\* last file of the page, and a short page ends the prefix.
DeleteLoop ==
    /\ pc = "del_loop"
    /\ IF di <= Len(orphanedFiles)
       THEN LET u == orphanedFiles[di].URL
            IN  /\ pc' = "del_stat"
                /\ events' = Append(events, Ev("del", CurPrefix, u, << >>,
                                               {u} \cap Referenced))
                /\ rexisted' = (extractPathFromURL(u) \in DOMAIN objects)
                /\ raced' = IF ClientInDelete(u) /\ cexisted
                            THEN raced \cup {[url |-> u, n |-> cops]}
                            ELSE raced
                /\ UNCHANGED << pi, run, result, lastKey >>
       ELSE /\ lastKey' = files[Len(files)].URL
            /\ IF Len(files) < batchSize
               THEN PrefixDone(pfx, events)
               ELSE /\ pc' = "list"
                    /\ UNCHANGED << pi, run, result, events >>
            /\ UNCHANGED << rexisted, raced >>
    /\ UNCHANGED << objects, data, minAge, pfx, faults >>
    /\ UNCHANGED << webVars, dbVars, clientVars, pageVars, envVars >>

\* Mutant: a failed storage.Delete ends the delete loop of the page.
DeleteErrorEndsThePage(res) ==
    /\ pfx' = IF res = "nil" THEN [pfx EXCEPT !.deleted = @ + 1]
              ELSE [pfx EXCEPT !.errors = @ + 1]
    /\ events' = Append(events, Ev(IF res = "nil" THEN "delok" ELSE "delerr",
                                   CurPrefix, orphanedFiles[di].URL, << >>, {}))
    /\ di' = IF res = "nil" THEN di + 1 ELSE Len(orphanedFiles) + 1
    /\ pc' = "del_loop"

\* cleanPrefix: storage.Delete returned; count the outcome and go on with
\* the next orphan.
DeleteReturned(res) ==
    /\ pfx' = IF res = "nil" THEN [pfx EXCEPT !.deleted = @ + 1]
              ELSE [pfx EXCEPT !.errors = @ + 1]
    /\ events' = Append(events, Ev(IF res = "nil" THEN "delok" ELSE "delerr",
                                   CurPrefix, orphanedFiles[di].URL, << >>, {}))
    /\ di' = di + 1
    /\ pc' = "del_loop"

\* storage.Delete called by the job: the existence check.
DelStat ==
    /\ pc = "del_stat"
    /\ LET c == DeleteCheck(storageType, objects, orphanedFiles[di].URL)
       IN  IF c = "go"
           THEN /\ pc' = "del_remove"
                /\ UNCHANGED << pfx, events, di >>
           ELSE DeleteReturned(c)
    /\ UNCHANGED << objects, data, pi, minAge, run, lastKey, files, filesToCheck,
                    existingPathsMap, orphanedFiles, result, faults, rexisted,
                    raced >>
    /\ UNCHANGED << webVars, dbVars, clientVars, envVars >>

\* storage.Delete called by the job: the removal.
DelRemoveWith(fail) ==
    /\ pc = "del_remove"
    /\ LET r == DeleteRemove(storageType, objects, orphanedFiles[di].URL, fail)
       IN  /\ objects' = r.objs
           /\ data' = Restrict(data, DOMAIN r.objs)
           /\ DeleteReturned(r.res)
    /\ UNCHANGED << pi, minAge, run, lastKey, files, filesToCheck,
                    existingPathsMap, orphanedFiles, result, rexisted, raced >>
    /\ UNCHANGED << webVars, dbVars, clientVars, envVars >>

DelRemove == DelRemoveWith(FALSE) /\ UNCHANGED faults

DelRemoveFail ==
    /\ faults < MaxFaults
    /\ faults' = faults + 1
    /\ DelRemoveWith(TRUE)

JobNext ==
    \/ StartRun
    \/ NextPrefix
    \/ ListFail
    \/ ListPage
    \/ QueryFail
    \/ QueryPosts
    \/ QueryIcons
    \/ QueryBgs
    \/ QueryProfiles
    \/ DeleteLoop
    \/ DelStat
    \/ DelRemove
    \/ DelRemoveFail


\* CleanOrphanedFiles has returned to the scheduler, which will call it
\* again.
Rerun ==
    /\ pc = "done"
    /\ runs < MaxReruns
    /\ pc' = "idle"
    /\ runs' = runs + 1
    /\ UNCHANGED << storageType, now, objects0, objects, data, saving, pi, minAge,
                    run, pfx,
                    lastKey, result, events, faults, rexisted, raced >>
    /\ UNCHANGED << webVars, dbVars, clientVars, pageVars >>

\* The process exits in the middle of a run and is started again: what the
\* run held in memory is gone, the scheduler will call the job anew.
Crash ==
    /\ pc \notin {"idle", "done"}
    /\ runs < MaxReruns
    /\ pc' = "idle"
    /\ runs' = runs + 1
    /\ UNCHANGED << storageType, now, objects0, objects, data, saving, pi, minAge,
                    run, pfx, lastKey, result, events, faults, rexisted, raced >>
    /\ UNCHANGED << webVars, dbVars, clientVars, pageVars >>

---------------------------------------------------------------------------
(* Request handlers *)

jobVars == << pc, pi, minAge, run, pfx, lastKey, result, events, faults,
              rexisted >>

\* The URLs Save has returned: those of the objects the model starts with
\* and those of the uploads served since.
Issued ==
    {GetURL(storageType, k) : k \in DOMAIN objects0}
      \cup {clog[i].url : i \in {j \in 1..Len(clog) : clog[j].op = "save"}}

\* The keys Save may generate for the uploads of the model.  A generated
\* name ends in the time of the upload and a random suffix, so it differs
\* from the name of every object stored earlier.
UploadKeys == { << "image", "/", "user_1", "/", "f2" >> }

\* A reference that never named a stored object.
NeverStored == << "image", "/", "user_2", "/", "f4" >>

\* FileService.UploadFile: storage.Save writes the object and returns its
\* URL to the client.
ReqUploadFile ==
    /\ cpc = "idle"
    /\ cops < MaxClientOps
    /\ \E k \in UploadKeys :
          /\ GetURL(storageType, k) \notin Issued
          /\ objects' = [x \in DOMAIN objects \cup {k} |->
                            IF x = k THEN now ELSE objects[x]]
          /\ data' = [x \in DOMAIN objects \cup {k} |->
                         IF x = k THEN SomeContent ELSE data[x]]
          /\ clog' = Append(clog, [op |-> "save", url |-> GetURL(storageType, k),
                                   res |-> "nil", n |-> cops + 1])
    /\ cops' = cops + 1
    /\ UNCHANGED << cpc, curl, cexisted, raced >>
    /\ UNCHANGED << webVars, jobVars, dbVars, pageVars, envVars >>

\* PostService.CreatePost: the transaction commits a post whose media_path
\* is a URL the client got from an upload.
ReqCreatePost ==
    /\ cpc = "idle"
    /\ cops < MaxClientOps
    /\ \E u \in Issued :
          posts' = posts \cup {[media_path |-> u, media_source |-> "internal"]}
    /\ cops' = cops + 1
    /\ UNCHANGED << objects, data, themes, users, cpc, curl, cexisted, clog, raced >>
    /\ UNCHANGED << webVars, jobVars, pageVars, envVars >>

\* FileService.DeleteFile: storage.Delete is called on the path of the
\* request.
ReqDeleteFile ==
    /\ cpc = "idle"
    /\ cops < MaxClientOps
    /\ \E u \in Issued \cup {GetURL(storageType, NeverStored)} :
          /\ curl' = u
          /\ cexisted' = (extractPathFromURL(u) \in DOMAIN objects)
          /\ raced' = IF JobInDelete(u) /\ rexisted
                      THEN raced \cup {[url |-> u, n |-> cops + 1]} ELSE raced
    /\ cpc' = "c_stat"
    /\ cops' = cops + 1
    /\ UNCHANGED << objects, data, clog >>
    /\ UNCHANGED << webVars, jobVars, dbVars, pageVars, envVars >>

\* storage.Delete called by the handler: the existence check.
ReqDelStat ==
    /\ cpc = "c_stat"
    /\ LET c == DeleteCheck(storageType, objects, curl)
       IN  IF c = "go"
           THEN /\ cpc' = "c_remove"
                /\ UNCHANGED clog
           ELSE /\ cpc' = "idle"
                /\ clog' = Append(clog, [op |-> "delete", url |-> curl,
                                         res |-> c, n |-> cops])
    /\ UNCHANGED << objects, data, curl, cexisted, cops, raced >>
    /\ UNCHANGED << webVars, jobVars, dbVars, pageVars, envVars >>

\* storage.Delete called by the handler: the removal.
ReqDelRemove ==
    /\ cpc = "c_remove"
    /\ LET r == DeleteRemove(storageType, objects, curl, FALSE)
       IN  /\ objects' = r.objs
           /\ data' = Restrict(data, DOMAIN r.objs)
           /\ clog' = Append(clog, [op |-> "delete", url |-> curl,
                                    res |-> r.res, n |-> cops])
    /\ cpc' = "idle"
    /\ UNCHANGED << curl, cexisted, cops, raced >>
    /\ UNCHANGED << webVars, jobVars, dbVars, pageVars, envVars >>

\* A day passes.
Tick ==
    /\ now < MaxTime
    /\ now' = now + 1
    /\ UNCHANGED << storageType, objects0, objects, data, saving, raced, runs >>
    /\ UNCHANGED << webVars, jobVars, dbVars, pageVars, clientVars >>

ClientNext ==
    \/ ReqUploadFile
    \/ ReqCreatePost
    \/ ReqDeleteFile
    \/ ReqDelStat
    \/ ReqDelRemove
    \/ Tick

---------------------------------------------------------------------------
(* Storage calls *)

\* What a call of the storage interface leaves alone besides the job.
callerRest ==
    << storageType, objects0, runs, raced, cpc, curl, cexisted, webVars >>

\* File names clients upload under: a plain one, one with a "#" and one
\* with a backslash.
OriginalNames ==
    { << "f1", ".png" >>, << "f1", "#", "f2", ".png" >>,
      << "f1", "\\", "f2", ".png" >> }

\* The directory FileService.UploadFile passes to Save for user 1.
SaveDirs == { << "image", "/", "user_1" >> }

\* Contents saved: nothing, and two bytes.
Bodies == { << >>, << "b1", "b2" >> }

\* The values uuid.New().String()[0:8] may take.
UniqueIDs == {"id1", "id2"}

\* The same key in the format of the backend that is not configured.
ForeignURL(key) == GetURL(IF storageType = "s3" THEN "local" ELSE "s3", key)

\* The successful Save calls so far.
Saved == {i \in 1..Len(clog) : clog[i].op = "save" /\ clog[i].res = "nil"}

\* The references a caller may pass to Get and Delete: the URLs Save has
\* returned, and the same keys in the other backend's format.
StoreRefs ==
    {clog[i].url : i \in Saved} \cup {ForeignURL(clog[i].key) : i \in Saved}

\* An entry of the log of storage calls.
Call(op, name, url, res, key, body) ==
    [op |-> op, name |-> name, url |-> url, res |-> res, n |-> cops + 1,
     key |-> key, body |-> body]

\* LocalStorage.Save / SaveFromReader up to os.Create: the file exists and is
\* empty; or os.Create fails and Save returns the error.
LocalSaveCreate ==
    /\ storageType = "local"
    /\ saving = << >>
    /\ cops < MaxStoreOps
    /\ \E o \in OriginalNames, d \in SaveDirs, b \in Bodies, id \in UniqueIDs,
          ok \in BOOLEAN :
          LET filename == generateUniqueFilename(o, ToString(now), id)
              key      == SaveKey("local", d, filename)
          IN  IF ok
              THEN /\ objects' = Put(objects, key, now)
                   /\ data' = Put(data, key, << >>)
                   /\ saving' = << [name |-> o, key |-> key, body |-> b,
                                    url |-> SaveURL("local", d, filename)] >>
                   /\ UNCHANGED << clog, cops >>
              ELSE /\ clog' = Append(clog,
                          Call("save", o, << >>, "err", key, b))
                   /\ cops' = cops + 1
                   /\ UNCHANGED << objects, data, saving >>
    /\ UNCHANGED << now, jobVars, dbVars, pageVars, callerRest >>

\* LocalStorage.Save / SaveFromReader from io.Copy on: all bytes are written
\* and Save returns the URL; or io.Copy fails after n bytes and Save returns
\* the error.
LocalSaveCopy ==
    /\ saving # << >>
    /\ LET sv == saving[1]
       IN  \E n \in 0..Len(sv.body), ok \in BOOLEAN :
              /\ ok => n = Len(sv.body)
              /\ data' = Put(data, sv.key, SubSeq(sv.body, 1, n))
              /\ clog' = Append(clog,
                     Call("save", sv.name, IF ok THEN sv.url ELSE << >>,
                          IF ok THEN "nil" ELSE "err", sv.key, sv.body))
    /\ saving' = << >>
    /\ cops' = cops + 1
    /\ UNCHANGED << objects, now, jobVars, dbVars, pageVars, callerRest >>

\* S3Storage.Save / SaveFromReader: uploader.Upload stores the whole object
\* under the key, or fails and stores nothing.
S3Save ==
    /\ storageType = "s3"
    /\ cops < MaxStoreOps
    /\ \E o \in OriginalNames, d \in SaveDirs, b \in Bodies, id \in UniqueIDs,
          ok \in BOOLEAN :
          LET filename == generateUniqueFilename(o, ToString(now), id)
              key      == SaveKey("s3", d, filename)
          IN  IF ok
              THEN /\ objects' = Put(objects, key, now)
                   /\ data' = Put(data, key, b)
                   /\ clog' = Append(clog,
                          Call("save", o, SaveURL("s3", d, filename), "nil",
                               key, b))
              ELSE /\ clog' = Append(clog,
                          Call("save", o, << >>, "err", key, b))
                   /\ UNCHANGED << objects, data >>
    /\ cops' = cops + 1
    /\ UNCHANGED << now, saving, jobVars, dbVars, pageVars, callerRest >>

\* Get of the configured backend, called on a reference.
StoreGet ==
    /\ cops < MaxStoreOps
    /\ \E u \in StoreRefs :
          LET g == StorageGet(objects, data, u)
          IN  clog' = Append(clog,
                 Call("get", << >>, u, g.res, extractPathFromURL(u), g.body))
    /\ cops' = cops + 1
    /\ UNCHANGED << objects, data, now, saving, jobVars, dbVars, pageVars,
                    callerRest >>

\* Delete of the configured backend, called on a reference.
StoreDelete ==
    /\ cops < MaxStoreOps
    /\ \E u \in StoreRefs :
          LET c == DeleteCheck(storageType, objects, u)
              r == IF c = "go" THEN DeleteRemove(storageType, objects, u, FALSE)
                   ELSE [objs |-> objects, res |-> c]
          IN  /\ objects' = r.objs
              /\ data' = Restrict(data, DOMAIN r.objs)
              /\ clog' = Append(clog,
                     Call("delete", << >>, u, r.res, extractPathFromURL(u),
                          IF DOMAIN r.objs # DOMAIN objects
                          THEN << "removed" >> ELSE << >>))
    /\ cops' = cops + 1
    /\ UNCHANGED << now, saving, jobVars, dbVars, pageVars, callerRest >>

StoreNext ==
    \/ LocalSaveCreate
    \/ LocalSaveCopy
    \/ S3Save
    \/ StoreGet
    \/ StoreDelete
    \/ Tick

---------------------------------------------------------------------------
(* PostService.CreatePost: the position of a new post *)

\* What a step of CreatePost leaves alone.
postRest ==
    << jobVars, dbVars, pageVars, clientVars, envVars, objects, data, raced,
       dq, clients, rlog >>

\* The greatest of a set of naturals, 0 for the empty set.
MaxOf(S) == IF S = {} THEN 0 ELSE CHOOSE m \in S : \A x \in S : x <= m

\* SELECT COALESCE(MAX(position), 0) + 1 FROM posts WHERE board_id = ? AND
\* id != ?, evaluated by a statement of a READ COMMITTED transaction (the
\* default of PostgreSQL): it reads the committed rows; the only row of its
\* own transaction is the one it excludes.
NextPosition(rows, id) == MaxOf({p.position : p \in {x \in rows : x.id # id}}) + 1

\* tx.Create(&post): the row exists in the transaction with position 0.
CpCreate(r) ==
    /\ txs[r].pc = "idle"
    /\ txs' = [txs EXCEPT ![r] = [pc |-> "created", position |-> 0]]
    /\ UNCHANGED << boardPosts, postRest >>

\* tx.Exec(UPDATE posts SET position = (SELECT ...) WHERE id = ?)
CpUpdatePosition(r) ==
    /\ txs[r].pc = "created"
    /\ txs' = [txs EXCEPT ![r] = [pc |-> "updated",
                                  position |-> NextPosition(boardPosts, r)]]
    /\ UNCHANGED << boardPosts, postRest >>

\* WithTransaction: fn returned nil and tx.Commit() succeeds.
CpCommit(r) ==
    /\ txs[r].pc = "updated"
    /\ txs' = [txs EXCEPT ![r].pc = "committed"]
    /\ boardPosts' = boardPosts \cup {[id |-> r, position |-> txs[r].position]}
    /\ UNCHANGED postRest

\* WithTransaction: the statement or the commit fails; nothing of the
\* transaction is kept.
CpRollback(r) ==
    /\ txs[r].pc \in {"created", "updated"}
    /\ txs' = [txs EXCEPT ![r] = [pc |-> "rolled_back", position |-> 0]]
    /\ UNCHANGED << boardPosts, postRest >>

NextPosts ==
    \E r \in Requests :
        \/ CpCreate(r)
        \/ CpUpdatePosition(r)
        \/ CpCommit(r)
        \/ CpRollback(r)

---------------------------------------------------------------------------
(* RateLimiterMiddleware *)

\* What a step of the rate limiter leaves alone.
limiterRest ==
    << jobVars, dbVars, pageVars, clientVars, envVars, objects, data, raced,
       boardPosts, txs, dq >>

\* The client addresses requests come from.
IPs == {"ip1", "ip2"}

\* rate.NewLimiter(rate.Limit(requests), burst): a full bucket.
NewLimiter(isAuth) ==
    [auth   |-> isAuth,
     tokens |-> IF isAuth THEN AuthRateLimitBurst ELSE RateLimitBurst,
     idle   |-> 0]

\* getClientLimiter: the limiter of r.clients[key], created for the kind of
\* this request when the map has none; lastSeen is set to now.
getClientLimiter(key, isAuth) ==
    IF key \in DOMAIN clients THEN [clients[key] EXCEPT !.idle = 0]
    ELSE NewLimiter(isAuth)

\* RateLimit: the middleware decides one request.  limiter.Allow() takes a
\* token when there is one.
RateLimit ==
    /\ Len(rlog) < MaxLimited
    /\ \E clientIP \in IPs, isAuth \in BOOLEAN :
          LET limiter == getClientLimiter(clientIP, isAuth)
              allow   == limiter.tokens >= 1
          IN  /\ clients' = Put(clients, clientIP,
                     IF allow THEN [limiter EXCEPT !.tokens = @ - 1]
                     ELSE limiter)
              /\ rlog' = Append(rlog, [ip |-> clientIP, isAuth |-> isAuth,
                                       limiter |-> limiter.auth,
                                       admitted |-> allow])
    /\ UNCHANGED limiterRest

\* A second passes: every limiter gains the tokens of its rate up to its
\* burst, and every client is a second longer unseen.
Second ==
    /\ clients # << >>
    /\ clients' =
          [ip \in DOMAIN clients |->
              LET c     == clients[ip]
                  gain  == IF c.auth THEN AuthRateLimitRequests
                           ELSE RateLimitRequests
                  burst == IF c.auth THEN AuthRateLimitBurst
                           ELSE RateLimitBurst
              IN  [auth   |-> c.auth,
                   tokens |-> IF c.tokens + gain > burst THEN burst
                              ELSE c.tokens + gain,
                   idle   |-> IF c.idle > IdleLimit THEN c.idle ELSE c.idle + 1]]
    /\ clients' # clients
    /\ UNCHANGED << rlog, limiterRest >>

\* cleanupClients: the ticker fires; the clients unseen for longer than the
\* limit are deleted from the map.
cleanupClients ==
    /\ \E ip \in DOMAIN clients : clients[ip].idle > IdleLimit
    /\ clients' = Restrict(clients,
                      {ip \in DOMAIN clients : clients[ip].idle <= IdleLimit})
    /\ UNCHANGED << rlog, limiterRest >>

NextLimiter ==
    \/ RateLimit
    \/ Second
    \/ cleanupClients

---------------------------------------------------------------------------
(* PostService.DeletePost and BoardService.DeleteBoard *)

\* What a step of a delete handler leaves alone.
deleteRest ==
    << jobVars, pageVars, clientVars, envVars, themes, users, raced,
       boardPosts, txs, clients, rlog >>

PostIDs == {1, 2, 3}
BoardIDs == {1, 2}

\* The board of each post of the model.
BoardOf(postID) == IF postID = 3 THEN 2 ELSE 1

\* The two stored objects posts may have as media.
MediaKeys ==
    {<< "image", "/", "user_1", "/", "f1" >>,
     << "image", "/", "user_1", "/", "f2" >>}

\* The media a post row may carry: none, an uploaded object, or a URL of
\* another site.
MediaOf(st) ==
    {[media_path |-> << >>, media_source |-> << >>],
     [media_path |-> << "https://", "giphy.com", "/", "f1" >>,
      media_source |-> "external"]}
    \cup {[media_path |-> GetURL(st, k), media_source |-> "internal"]
             : k \in MediaKeys}

\* A request that has read what it will delete.
Handler(op, id, rows) ==
    [op |-> op, id |-> id, pc |-> "tx", posts |-> rows, i |-> 1,
     committed |-> FALSE, calls |-> << >>]

\* The rows of S in the order of their ids.
RECURSIVE RowsInOrder(_)
RowsInOrder(S) ==
    IF S = {} THEN << >>
    ELSE LET r == CHOOSE x \in S : \A y \in S : x.id <= y.id
         IN  << r >> \o RowsInOrder(S \ {r})

\* The board row is there until a DeleteBoard of it has committed.
BoardExists(boardID) ==
    \A h \in DOMAIN dq :
       ~(dq[h].op = "DeleteBoard" /\ dq[h].id = boardID /\ dq[h].committed)

\* DeletePost up to the transaction: the post is found, the user may delete
\* it, and mediaPath and mediaSource are kept for later.
DeletePostRead ==
    /\ Len(dq) < MaxDeletes
    /\ \E post \in posts :
          dq' = Append(dq, Handler("DeletePost", post.id, << post >>))
    /\ UNCHANGED << posts, objects, data, deleteRest >>

\* DeleteBoard up to the transaction: the board is found, the user is its
\* creator, and the posts of the board are read.
DeleteBoardRead ==
    /\ Len(dq) < MaxDeletes
    /\ \E boardID \in BoardIDs :
          /\ BoardExists(boardID)
          /\ dq' = Append(dq, Handler("DeleteBoard", boardID,
                       RowsInOrder({p \in posts : p.board_id = boardID})))
    /\ UNCHANGED << posts, objects, data, deleteRest >>

\* The rows the transaction of a handler deletes.
TxDeletes(h) ==
    IF dq[h].op = "DeletePost" THEN {p \in posts : p.id = dq[h].id}
    ELSE {p \in posts : p.board_id = dq[h].id}

\* WithTransaction returned nil: the deletes are committed.
TxCommitted(h) ==
    /\ dq[h].pc = "tx"
    /\ posts' = posts \ TxDeletes(h)
    /\ dq' = [dq EXCEPT ![h].pc = "media", ![h].committed = TRUE]
    /\ UNCHANGED << objects, data, deleteRest >>

\* Mutant: the handler goes on to the media after a failed transaction.
TxFailedStillDeletes(h) ==
    /\ dq[h].pc = "tx"
    /\ dq' = [dq EXCEPT ![h].pc = "media"]
    /\ UNCHANGED << posts, objects, data, deleteRest >>

\* WithTransaction returned an error, after a rollback: the handler returns
\* the error.
TxFailed(h) ==
    /\ dq[h].pc = "tx"
    /\ dq' = [dq EXCEPT ![h].pc = "returned"]
    /\ UNCHANGED << posts, objects, data, deleteRest >>

\* After the transaction: storage.Delete on the next post read whose media
\* is internal; its error is logged or collected, never returned early.
DeleteMedia(h) ==
    /\ dq[h].pc = "media"
    /\ dq[h].i <= Len(dq[h].posts)
    /\ LET post == dq[h].posts[dq[h].i]
       IN  IF post.media_path # << >> /\ post.media_source = "internal"
           THEN \E fail \in BOOLEAN :
                   LET c == DeleteCheck(storageType, objects, post.media_path)
                       r == IF c = "go"
                            THEN DeleteRemove(storageType, objects,
                                              post.media_path, fail)
                            ELSE [objs |-> objects, res |-> c]
                   IN  /\ objects' = r.objs
                       /\ data' = Restrict(data, DOMAIN r.objs)
                       /\ dq' = [dq EXCEPT ![h].i = @ + 1,
                                           ![h].calls = Append(@,
                                               [url |-> post.media_path,
                                                res |-> r.res])]
           ELSE /\ dq' = [dq EXCEPT ![h].i = @ + 1]
                /\ UNCHANGED << objects, data >>
    /\ UNCHANGED << posts, deleteRest >>

\* The media are done: the handler returns.
DeleteReturn(h) ==
    /\ dq[h].pc = "media"
    /\ dq[h].i > Len(dq[h].posts)
    /\ dq' = [dq EXCEPT ![h].pc = "returned"]
    /\ UNCHANGED << posts, objects, data, deleteRest >>

NextDelete ==
    \/ DeletePostRead
    \/ DeleteBoardRead
    \/ \E h \in DOMAIN dq : TxCommitted(h)
    \/ \E h \in DOMAIN dq : TxFailed(h)
    \/ \E h \in DOMAIN dq : DeleteMedia(h)
    \/ \E h \in DOMAIN dq : DeleteReturn(h)

---------------------------------------------------------------------------
(* Initial states *)

\* FileService.UploadFile stores a file of a user-specific category under
\* <category>/user_<id>/ or <category>/anonymous/, and a file of a shared
\* category directly under <category>/.
UserKey(category, dir, name) == << category, "/", dir, "/", name >>
SharedKey(category, name) == << category, "/", name >>

\* Object sets the job may find when it starts.
Layouts ==
    { { UserKey("image", "user_1", "f1"), UserKey("image", "user_1", "f2"),
        UserKey("image", "user_1", "f3"), UserKey("image", "user_2", "f1") },
      { UserKey("image", "user_1", "f1"), UserKey("image", "user_1", "f2"),
        UserKey("image", "user_1", "f3"), UserKey("avatar", "user_1", "f1") },
      { UserKey("image", "anonymous", "f1"), SharedKey("general", "f1"),
        SharedKey("general", "f2"), SharedKey("general", "f3") } }

\* The columns a reference may sit in; "post_ext" is posts.media_path of a
\* row whose media_source is 'external'.
RefKinds == {"post", "post_ext", "icon", "bg", "user"}

PostRows(st, R, kind) ==
    IF kind \in {"post", "post_ext"}
    THEN {[media_path |-> GetURL(st, k),
           media_source |-> IF kind = "post" THEN "internal" ELSE "external"]
             : k \in R}
    ELSE {}

ThemeRows(st, R, kind) ==
    IF kind = "icon"
    THEN {[icon_url |-> GetURL(st, k), background_image_url |-> << >>] : k \in R}
    ELSE IF kind = "bg"
    THEN {[icon_url |-> << >>, background_image_url |-> GetURL(st, k)] : k \in R}
    ELSE {}

UserRows(st, R, kind) ==
    IF kind = "user" THEN {[profile_picture |-> GetURL(st, k)] : k \in R} ELSE {}

\* The job and the request handler at rest.
AtRest ==
    /\ pc = "idle"
    /\ pi = 1
    /\ minAge = 0
    /\ run = Zero
    /\ pfx = Zero
    /\ lastKey = << >>
    /\ files = << >>
    /\ filesToCheck = << >>
    /\ existingPathsMap = {}
    /\ orphanedFiles = << >>
    /\ di = 1
    /\ result = "none"
    /\ events = << >>
    /\ faults = 0
    /\ cpc = "idle"
    /\ curl = << >>
    /\ cexisted = FALSE
    /\ rexisted = FALSE
    /\ clog = << >>
    /\ cops = 0
    /\ raced = {}
    /\ runs = 0
    /\ boardPosts = {}
    /\ txs = [r \in Requests |-> [pc |-> "idle", position |-> 0]]
    /\ dq = << >>
    /\ clients = << >>
    /\ rlog = << >>
    /\ saving = << >>

\* Objects uploaded on day 0 or, one or all of them, on day 2; at most one
\* row that references one of them; the job about to start on day 2.
InitWith(layouts, kinds) ==
    /\ storageType \in {"local", "s3"}
    /\ now = 2
    /\ \E keys \in layouts, kind \in kinds :
       \E R \in {X \in SUBSET keys : Cardinality(X) <= 1} :
       \E young \in {X \in SUBSET keys : Cardinality(X) <= 1} \cup {keys} :
          /\ objects = [k \in keys |-> IF k \in young THEN now ELSE 0]
          /\ posts = PostRows(storageType, R, kind)
          /\ themes = ThemeRows(storageType, R, kind)
          /\ users = UserRows(storageType, R, kind)
    /\ objects0 = objects
    /\ data = [k \in DOMAIN objects |-> SomeContent]
    /\ AtRest

Init == InitWith(Layouts, RefKinds)

Next == JobNext

Spec == Init /\ [][Next]_vars

\* Two files of the shared category general/ as LocalStorage.Save leaves
\* them on a host whose path separator is "/": one uploaded as "f10", one
\* uploaded as "f1\f2" (mime/multipart keeps a backslash of the client's
\* file name, and filepath.Base cuts at "/" only).
BackslashLayout ==
    { << "general", "/", "f1", "0" >>, << "general", "/", "f1", "\\", "f2" >> }

\* S3Storage.Save replaces the backslashes of a key before it stores the
\* object, so only the local backend holds a key with one.
LiveLayouts ==
    IF storageType = "local" THEN Layouts \cup {BackslashLayout} ELSE Layouts

\* The job alone with references in posts.media_path only.
InitLive == InitWith(LiveLayouts, {"post"})

\* The steps of the job that need no failure of the environment, ListPage
\* aside.
JobStep ==
    \/ StartRun
    \/ NextPrefix
    \/ QueryPosts
    \/ QueryIcons
    \/ QueryBgs
    \/ QueryProfiles
    \/ DeleteLoop
    \/ DelStat
    \/ DelRemove

\* The job is one goroutine that runs from the scheduler's call to its
\* return without waiting for anything but the calls it makes, and these
\* return: a step that stays possible is taken.  For ListPage, which is
\* possible exactly when pc = "list" below the bound of the history and
\* always adds to the history, weak fairness is written out.  No failure of
\* the environment has to happen.
JobFairness ==
    /\ WF_vars(JobStep)
    /\ \/ []<>(~(pc = "list" /\ Len(events) < MaxHistory))
       \/ []<><<ListPage>>_vars

SpecLive == InitLive /\ [][Next]_vars /\ JobFairness

\* Two objects uploaded on day 0 that no row references, the job about to
\* start, and requests arriving while it runs.
InitConc ==
    /\ storageType \in {"local", "s3"}
    /\ now = 2
    /\ objects = [k \in {UserKey("image", "user_1", "f1"),
                         UserKey("avatar", "user_1", "f1")} |-> 0]
    /\ posts = {}
    /\ themes = {}
    /\ users = {}
    /\ objects0 = objects
    /\ data = [k \in DOMAIN objects |-> SomeContent]
    /\ AtRest

\* The job without injected failure, and the request handlers.
NextConc ==
    \/ StartRun
    \/ NextPrefix
    \/ ListPage
    \/ QueryPosts
    \/ QueryIcons
    \/ QueryBgs
    \/ QueryProfiles
    \/ DeleteLoop
    \/ DelStat
    \/ DelRemove
    \/ ClientNext

SpecConc == InitConc /\ [][NextConc]_vars

\* The job without injected failure, run again after it returned, with the
\* clock standing still and the rows unchanged.
NextRerun ==
    \/ StartRun
    \/ NextPrefix
    \/ ListPage
    \/ QueryPosts
    \/ QueryIcons
    \/ QueryBgs
    \/ QueryProfiles
    \/ DeleteLoop
    \/ DelStat
    \/ DelRemove
    \/ Rerun

SpecRerun == InitWith(Layouts, {"post"}) /\ [][NextRerun]_vars

\* The job without injected failure, interrupted by an exit of the process
\* and started again, with the clock standing still and the rows unchanged.
NextCrash ==
    \/ StartRun
    \/ NextPrefix
    \/ ListPage
    \/ QueryPosts
    \/ QueryIcons
    \/ QueryBgs
    \/ QueryProfiles
    \/ DeleteLoop
    \/ DelStat
    \/ DelRemove
    \/ Crash

SpecCrash == InitWith(Layouts, {"post"}) /\ [][NextCrash]_vars

\* An empty backend and its callers; the job does not run.
InitStore ==
    /\ storageType \in {"local", "s3"}
    /\ now = 2
    /\ objects = << >>
    /\ data = << >>
    /\ posts = {}
    /\ themes = {}
    /\ users = {}
    /\ objects0 = objects
    /\ AtRest

SpecStore == InitStore /\ [][StoreNext]_vars

\* A board without posts and the CreatePost requests on it.
SpecPosts == InitStore /\ [][NextPosts]_vars

\* The rate limiter with an empty map of clients.
SpecLimiter == InitStore /\ [][NextLimiter]_vars

\* Three posts on two boards, the two objects stored, and no delete request
\* yet.  Posts 1 and 3 have an object each as media; post 2 has any media
\* or none.
InitDelete ==
    /\ storageType \in {"local", "s3"}
    /\ now = 2
    /\ objects = [k \in MediaKeys |-> 0]
    /\ data = [k \in MediaKeys |-> SomeContent]
    /\ \E m \in [PostIDs -> MediaOf(storageType)] :
          /\ m[1].media_path = GetURL(storageType, << "image", "/", "user_1", "/", "f1" >>)
          /\ m[3].media_path = GetURL(storageType, << "image", "/", "user_1", "/", "f2" >>)
          /\ posts = {[id |-> p, board_id |-> BoardOf(p),
                    media_path |-> m[p].media_path,
                    media_source |-> m[p].media_source] : p \in PostIDs}
    /\ themes = {}
    /\ users = {}
    /\ objects0 = objects
    /\ AtRest

SpecDelete == InitDelete /\ [][NextDelete]_vars

\* The S3 backend, empty, and its callers, within one second of the clock.
InitS3 == InitStore /\ storageType = "s3"

NextS3 ==
    \/ S3Save
    \/ StoreGet
    \/ StoreDelete

SpecS3 == InitS3 /\ [][NextS3]_vars

---------------------------------------------------------------------------
(* Reading the history *)

Idx == 1..Len(events)

\* The entries of one kind.
At(kind) == {i \in Idx : events[i].ev = kind}

\* The listing that produced the page entry i belongs to.
PageOf(i) ==
    LET before == {j \in At("list") : j < i}
    IN  CHOOSE j \in before : \A l \in before : l <= j

\* The URLs storage.Delete was called on by the job.
DeleteCalls == {events[i].url : i \in At("del")}

\* The prefixes cleanPrefix was called on, in order.
Visited ==
    LET visit(e) == e.ev = "prefix"
        vs == SelectSeq(events, visit)
    IN  [i \in 1..Len(vs) |-> vs[i].prefix]

\* The clock when the run started.
RunStart == events[1].t

URLOf(k) == GetURL(storageType, k)

\* The objects the model started with that no row references.
Unreferenced0 == {k \in DOMAIN objects0 : URLOf(k) \notin Referenced}

\* How often the listings of the run returned url.
TimesListed(url) ==
    Cardinality(UNION {{<< i, j >> : j \in {x \in DOMAIN events[i].page :
                                              events[i].page[x] = url}}
                          : i \in At("list")})

\* The objects the model started with that lie under prefix p.
Under0(p) == {k \in DOMAIN objects0 : HasPrefix(k, p)}

\* The prefixes that come after the prefix of entry i.
LaterPrefixes(i) ==
    LET at == CHOOSE n \in 1..Len(prefixes) : prefixes[n] = events[i].prefix
    IN  {prefixes[n] : n \in (at + 1)..Len(prefixes)}

---------------------------------------------------------------------------
(* Claims *)

\* C1 (as claimed): after a run without failure over objects that are all
\* older than the grace age, storage.Delete has been called on exactly the
\* objects no owning column references, these are gone and every referenced
\* object is in place.
C1_DeletesExactlyTheOrphans ==
    (/\ pc = "done"
     /\ faults = 0
     /\ \A k \in DOMAIN objects0 : objects0[k] < RunStart - MinAgeDays)
    => /\ DeleteCalls = {URLOf(k) : k \in Unreferenced0}
       /\ DOMAIN objects = DOMAIN objects0 \ Unreferenced0

\* C2: storage.Delete is never called on a URL that a query of its page
\* returned, and after a failed query no object of that page is deleted.
C2_NeverDeletesAReturnedPath ==
    /\ \A i \in At("del") : \A q \in At("qok") :
          (PageOf(i) < q /\ q < i) => events[i].url \notin events[q].set
    /\ \A e \in At("qerr") : \A i \in At("del") :
          e < i => \E l \in At("list") : e < l /\ l < i

\* C2 witness: Delete was called on one object of a page after a query had
\* returned another object of the same page.
C2_Witness ==
    \E i \in At("del") : \E q \in At("qok") :
        /\ PageOf(i) < q
        /\ q < i
        /\ events[q].set # {}

\* C3: the job never calls storage.Delete on an object that was modified
\* less than the minimum age before the run started.
C3_NeverDeletesAYoungObject ==
    \A i \in At("del") :
        LET k == extractPathFromURL(events[i].url)
        IN  k \in DOMAIN objects0 => objects0[k] <= RunStart - MinAgeDays

\* C3 witness: the run is over, it deleted an object of a page that also
\* held a young unreferenced object, and the young object is still there.
C3_Witness ==
    /\ pc = "done"
    /\ \E k \in Unreferenced0 :
          /\ objects0[k] > RunStart - MinAgeDays
          /\ k \in DOMAIN objects
          /\ \E i \in At("delok") :
                \E j \in DOMAIN events[PageOf(i)].page :
                    events[PageOf(i)].page[j] = URLOf(k)

\* C5 (as claimed, its first part): when the object set did not change
\* during the run and nothing failed, the listings of the run returned
\* each object exactly once.
C5_EachObjectListedOnce ==
    (pc = "done" /\ faults = 0 /\ objects = objects0)
    => \A k \in DOMAIN objects0 : TimesListed(URLOf(k)) = 1

\* C8 (as claimed): when a query failed in one prefix, every later prefix
\* was still processed (its old unreferenced objects are gone) and the
\* totals the job reports show the failure.
C8_LaterPrefixesDoneAndFailureReported ==
    (pc = "done" /\ At("qerr") # {})
    => /\ \A e \in At("qerr") : \A p \in LaterPrefixes(e) :
             /\ \E v \in At("prefix") : e < v /\ events[v].prefix = p
             /\ \A k \in Under0(p) \cap Unreferenced0 :
                   objects0[k] < RunStart - MinAgeDays => k \notin DOMAIN objects
       /\ run.errors > 0

\* C9 (as claimed): after a failed query on a full page, the job lists the
\* next page of the same prefix, from the last URL of the failed page on.
C9_QueryErrorAbortsOnlyThePage ==
    pc = "done" =>
       \A e \in At("qerr") :
          LET page == events[PageOf(e)].page
          IN  Len(page) >= batchSize =>
                 \E l \in At("list") :
                    /\ e < l
                    /\ events[l].prefix = events[e].prefix
                    /\ events[l].url = page[Len(page)]

\* C9 (amended): a failed query ends the work on its prefix: no object of
\* the page is deleted, no further page of that prefix is listed in the run,
\* and the run goes on with the next prefix.
C9_QueryErrorAbortsThePrefix ==
    \A e \in At("qerr") :
       /\ \A m \in Idx :
             (e < m /\ events[m].prefix = events[e].prefix)
                => events[m].ev = "prefixerr"
       /\ \A i \in At("del") : ~(PageOf(e) < i /\ i < e)
       /\ pc = "done" =>
             \A p \in LaterPrefixes(e) :
                \E v \in At("prefix") : e < v /\ events[v].prefix = p

\* C9 witness: the run is over, a query failed on a full page, and an object
\* of that prefix was never listed.
C9_Witness ==
    /\ pc = "done"
    /\ \E e \in At("qerr") :
          /\ Len(events[PageOf(e)].page) >= batchSize
          /\ \E k \in Under0(events[e].prefix) : TimesListed(URLOf(k)) = 0

\* C10: CleanOrphanedFiles never returns an error; when it returns it has
\* called cleanPrefix on the seven prefixes in order, and a listing error
\* ended only the prefix it occurred in.
C10_VisitsAllPrefixesReturnsNil ==
    /\ result # "err"
    /\ pc = "done" => (result = "nil" /\ Visited = prefixes)
    /\ \A e \in At("listerr") : \A m \in Idx :
          (e < m /\ events[m].prefix = events[e].prefix)
             => events[m].ev = "prefixerr"

\* C10 witness: the job returned nil after a listing error in a prefix
\* that is not the last one.
C10_Witness ==
    /\ pc = "done"
    /\ result = "nil"
    /\ \E e \in At("listerr") : LaterPrefixes(e) # {}

\* C4 (as claimed): the job never removes an object that a committed row
\* referenced when the job called storage.Delete on it.
C4_NeverRemovesAReferencedObject ==
    [][(pc = "del_remove" /\ pc' = "del_loop" /\ objects' # objects)
          => events[Len(events)].set = {}]_vars

\* C6 (as claimed): two Delete calls in a row on the same reference, with
\* no job running, both return nil.
C6_DeleteTwiceSucceeds ==
    pc = "idle" =>
       \A i \in 1..(Len(clog) - 1) :
          (/\ clog[i].op = "delete"
           /\ clog[i + 1].op = "delete"
           /\ clog[i].url = clog[i + 1].url)
          => (clog[i].res = "nil" /\ clog[i + 1].res = "nil")

\* C7 (as claimed): when a Delete of the handler and a Delete of the job
\* overlap on an existing object, both return nil and the object is gone
\* once both have returned.
C7_RacingDeletesSucceed ==
    \A r \in raced :
       /\ \A i \in 1..Len(clog) : clog[i].n = r.n => clog[i].res = "nil"
       /\ \A i \in At("delerr") : events[i].url # r.url
       /\ (~JobInDelete(r.url) /\ ~(ClientInDelete(r.url) /\ cops = r.n))
             => extractPathFromURL(r.url) \notin DOMAIN objects

C12_RerunDeletesNothing ==
    (runs >= 1 /\ pc # "idle")
    => /\ At("del") = {}
       /\ pc = "done" => (run.deleted = 0 /\ run.errors = 0)

\* C13: for every backend, Get of the URL a successful Save returned gives
\* back exactly the content that was saved, empty content included.  Checked
\* on the Get calls that directly follow the Save.
C13_GetReturnsWhatSaveStored ==
    \A i \in Saved :
        (i < Len(clog) /\ clog[i + 1].op = "get" /\ clog[i + 1].url = clog[i].url)
            => (clog[i + 1].res = "nil" /\ clog[i + 1].body = clog[i].body)

\* C14: two Saves of the same original file name into the same directory, one
\* directly after the other, return two distinct URLs, and after the second
\* the object of the first still holds the first's content.
C14_SecondSaveKeepsTheFirst ==
    \A i \in Saved :
        (i + 1 = Len(clog) /\ i + 1 \in Saved /\ clog[i + 1].name = clog[i].name)
            => /\ clog[i + 1].url # clog[i].url
               /\ clog[i].key \in DOMAIN data
               /\ data[clog[i].key] = clog[i].body

\* C15: Save is atomic for observers.  While a Save is in flight, an object
\* visible under its key holds the whole content; and once a Save of a key no
\* earlier call used has returned an error, no object exists under that key.
C15_SaveIsAtomic ==
    /\ saving # << >> =>
          (saving[1].key \in DOMAIN objects
              => data[saving[1].key] = saving[1].body)
    /\ \A i \in 1..Len(clog) :
          ( /\ i = Len(clog)
            /\ clog[i].op = "save"
            /\ clog[i].res = "err"
            /\ \A j \in 1..(i - 1) : clog[j].key # clog[i].key )
              => clog[i].key \notin DOMAIN objects

\* C16: a reference in the format of the backend that is not configured is
\* rejected: Get and Delete given one return an error, and Delete removes no
\* object.
C16_ForeignReferenceIsRejected ==
    \A i \in 1..Len(clog) :
        ( /\ clog[i].op \in {"get", "delete"}
          /\ \E j \in Saved : clog[i].url = ForeignURL(clog[j].key) )
            => (clog[i].res = "err" /\ clog[i].body = << >>)

\* C17: for the configured backend and every key a successful Save stored
\* under, GetURL and extractPathFromURL are inverse to each other: the key
\* comes back from its URL, and the URL Save returned comes back from its key.
C17_GetURLInvertsExtractPath ==
    \A i \in Saved :
        /\ extractPathFromURL(GetURL(storageType, clog[i].key)) = clog[i].key
        /\ GetURL(storageType, extractPathFromURL(clog[i].url)) = clog[i].url

\* C18: a step of the cleanup job changes no row of posts, themes or users,
\* and creates or overwrites no stored object: every object there after the
\* step was there before it, with the same modification time and content.
C18_JobOnlyRemovesObjects ==
    [][ (jobVars' # jobVars \/ pageVars' # pageVars)
          => /\ dbVars' = dbVars
             /\ \A k \in DOMAIN objects' :
                   /\ k \in DOMAIN objects
                   /\ objects'[k] = objects[k]
                   /\ data'[k] = data[k] ]_vars

\* A run has ended with rows in the tables and fewer objects than it found.
C18_Witness ==
    /\ pc = "done"
    /\ posts \cup themes \cup users # {}
    /\ DOMAIN objects # DOMAIN objects0

\* C19: on the local backend, a Get of the URL a Save has just returned
\* succeeds; and a Get that directly follows a successful Delete of a URL
\* Save returned fails.  No Save is in flight at the Get.
C19_GetAfterSaveAndAfterDelete ==
    storageType = "local" =>
      \A i \in Saved : \A g \in 1..Len(clog) :
        ( /\ g = Len(clog)
          /\ saving = << >>
          /\ clog[g].op = "get"
          /\ clog[g].url = clog[i].url )
            => /\ g = i + 1 => clog[g].res = "nil"
               /\ ( /\ i < g - 1
                    /\ clog[g - 1].op = "delete"
                    /\ clog[g - 1].url = clog[i].url
                    /\ clog[g - 1].res = "nil" ) => clog[g].res = "err"

\* C20: every call of the batch listing returns at most batchSize objects, on
\* each backend and for every layout under the prefix.
C20_PageHoldsAtMostBatchSize ==
    \A i \in At("list") : Len(events[i].page) <= batchSize

\* C21: every object a batch listing called with a non-empty startAfter
\* returns has a URL strictly greater than startAfter in the order of the
\* cursor comparison, and the URLs of a page are strictly increasing in it.
C21_PageIsSortedAfterTheCursor ==
    \A i \in At("list") :
        LET p == events[i].page
        IN  /\ events[i].url # << >> =>
                  \A x \in 1..Len(p) : StrLess(events[i].url, p[x])
            /\ \A x \in 1..(Len(p) - 1) : StrLess(p[x], p[x + 1])

\* C22: in the scan of one prefix, the cursor of each listing after the first
\* is the URL of the last object of the page before it and is strictly
\* greater than the cursor before it, and no object of an earlier page of the
\* prefix is returned again.
C22_CursorAdvancesAndNeverRevisits ==
    \A i \in At("list") : \A j \in At("list") :
        (i < j /\ events[i].prefix = events[j].prefix) =>
            LET p == events[i].page
                q == events[j].page
            IN  /\ StrLess(events[i].url, events[j].url)
                /\ \A x \in 1..Len(p) : \A y \in 1..Len(q) : p[x] # q[y]
                /\ (\A l \in At("list") : ~(i < l /\ l < j)) =>
                      (p # << >> /\ events[j].url = p[Len(p)])

\* C23: a storage.Delete of the job that returns an error adds one to the
\* error counter of the prefix and nothing to the deleted counter, and the
\* delete loop goes on with the next orphan of the page; and a run in which
\* only deletions failed visits every prefix, lists again after every full
\* page and returns nil.
C23_DeleteErrorAbortsNothing ==
    /\ [][ (Len(events') = Len(events) + 1
              /\ events'[Len(events')].ev = "delerr")
            => /\ pfx' = [pfx EXCEPT !.errors = @ + 1]
               /\ pc' = "del_loop"
               /\ di' = di + 1
               /\ orphanedFiles' = orphanedFiles
               /\ << pi, lastKey, result, run >>' = << pi, lastKey, result, run >>
         ]_vars
    /\ []( ( /\ pc = "done"
             /\ At("delerr") # {}
             /\ At("listerr") \cup At("qerr") = {} )
           => /\ result = "nil"
              /\ Visited = prefixes
              /\ \A i \in At("list") :
                    Len(events[i].page) >= batchSize =>
                       \E j \in At("list") :
                          i < j /\ events[j].prefix = events[i].prefix )

\* A run has ended in which a deletion failed and a later orphan of the same
\* page was attempted.
C23_Witness ==
    /\ pc = "done"
    /\ \E e \in At("delerr") : \E d \in At("del") :
          d > e /\ PageOf(d) = PageOf(e)

\* C24: when a run was interrupted by an exit of the process and a later run
\* on the same rows has ended without failure, the stored objects are those
\* one uninterrupted run leaves: the objects the model started with, except
\* those under the scanned prefixes that are older than the grace age and
\* that no owning column references.
C24_InterruptedThenCompleteRun ==
    (runs >= 1 /\ pc = "done") =>
        DOMAIN objects =
            DOMAIN objects0 \
                {k \in Unreferenced0 :
                    /\ objects0[k] < minAge
                    /\ \E n \in 1..Len(prefixes) : k \in Under0(prefixes[n])}

\* C25: the job never calls storage.Delete on a URL that a row holds in one
\* of the columns that can hold the URL of an upload: posts.media_path,
\* themes.icon_url, themes.background_image_url, users.profile_picture.
C25_NoHeldURLIsReclaimed ==
    \A i \in At("del") :
        events[i].url \notin
            {r.media_path : r \in posts}
              \cup {r.icon_url : r \in themes}
              \cup {r.background_image_url : r \in themes}
              \cup {r.profile_picture : r \in users}

C27_CommittedPositionsDiffer ==
    \A p \in boardPosts : \A q \in boardPosts :
        p.id # q.id => p.position # q.position

\* C30: every request to an auth endpoint is decided by a limiter made from
\* AuthRateLimitRequests and AuthRateLimitBurst, and every request to
\* another endpoint by one made from RateLimitRequests and RateLimitBurst,
\* whatever the same address requested before.
C30_LimiterMatchesTheEndpoint ==
    \A i \in 1..Len(rlog) : rlog[i].limiter = rlog[i].isAuth

\* C28: at the end of every run, also one in which a prefix was abandoned on
\* a listing or query error after earlier pages of it were processed, the
\* job reports as total_deleted the number of storage.Delete calls that
\* succeeded, as total_errors the number that failed, and both together
\* are at most total_processed.
C28_TotalsCountTheDeleteCalls ==
    pc = "done"
    => /\ run.deleted = Cardinality(At("delok"))
       /\ run.errors = Cardinality(At("delerr"))
       /\ run.deleted + run.errors <= run.processed

====
